---- MODULE Spec2Model ----
(***************************************************************************)
(* Group / organization request pipeline of coderd:                        *)
(*   httpmw.ExtractGroupParam, httpmw.ExtractOrganizationParam,            *)
(*   httpmw.ExtractOrganizationMemberParam (resolver middleware) and the   *)
(*   group handlers postGroupByOrganization, patchGroup, deleteGroup,      *)
(*   group, groups.                                                        *)
(*                                                                         *)
(* A request is a record r[p]; the store is the pair of tables dbGroups,   *)
(* dbGroupMembers (mutable) plus the fixed tables Organizations,           *)
(* OrganizationMembers and dbUsers.  Every store call of the Go code is    *)
(* one atomic step or part of one; a handler is split exactly at the       *)
(* store calls that read or write the mutable tables.                      *)
(***************************************************************************)
EXTENDS Integers, Sequences, FiniteSets, TLC

VARIABLES dbGroups, dbGroupMembers, dbUsers, r

vars == <<dbGroups, dbGroupMembers, dbUsers, r>>

----------------------------------------------------------------------------
(* Bounds of the model *)

\* longest middleware chain explored in front of a handler
MaxChain == 2
\* longest AddUsers list of a PatchGroupRequest
MaxAdd == 2
\* longest RemoveUsers list of a PatchGroupRequest
MaxRemove == 1

----------------------------------------------------------------------------
(* Identifiers and strings *)

\* uuid.UUID values are numbered; 0 is uuid.Nil
NilUUID == 0

\* the identifiers of the rows the store starts with; GroupAbsent names no row
Ident == [ OrgAcme |-> 1, OrgOther |-> 2, UserAlice |-> 3, UserBob |-> 4, UserCarol |-> 5,
           GroupEveryone |-> 6, GroupInfra |-> 7, GroupDevs |-> 8, GroupAbsent |-> 9,
           OrgShadow |-> 10 ]
OrgAcme == Ident.OrgAcme
OrgOther == Ident.OrgOther
UserAlice == Ident.UserAlice
UserBob == Ident.UserBob
UserCarol == Ident.UserCarol
GroupEveryone == Ident.GroupEveryone
GroupInfra == Ident.GroupInfra
GroupDevs == Ident.GroupDevs
GroupAbsent == Ident.GroupAbsent
OrgShadow == Ident.OrgShadow

\* the requests in flight at the same time
Requests == {1, 2}

\* uuid.New() in request p: an identifier no row and no other request has
NewUUID(p) == Ident.OrgShadow + p

UUIDs == NilUUID..NewUUID(Cardinality(Requests))

Hex == <<"0", "1", "2", "3", "4", "5", "6", "7", "8", "9", "a", "b", "c", "d", "e", "f">>

\* uuid.UUID.String(): the canonical lower-case hyphenated form
UUIDString(u) == "00000000-0000-0000-0000-00000000000" \o Hex[u + 1]

\* a second textual form uuid.Parse accepts for the same value
UUIDUrn(u) == "urn:uuid:" \o UUIDString(u)

\* uuid.Parse: the set of parsed values of s (empty when s does not parse)
UUIDParse(s) == {u \in UUIDs : s = UUIDString(u) \/ s = UUIDUrn(u)}

\* codersdk.DefaultOrganization
DefaultOrganization == "default"

\* database.AllUsersGroup
AllUsersGroup == "Everyone"

----------------------------------------------------------------------------
(* Fixed tables of the store *)

Organizations ==
    { [ID |-> OrgAcme, Name |-> "acme", IsDefault |-> TRUE],
      [ID |-> OrgOther, Name |-> "default", IsDefault |-> FALSE],
      [ID |-> OrgShadow, Name |-> UUIDString(GroupAbsent), IsDefault |-> FALSE] }

\* rows of organization_members
OrganizationMembers ==
    { [OrganizationID |-> OrgAcme, UserID |-> UserAlice],
      [OrganizationID |-> OrgAcme, UserID |-> UserBob],
      [OrganizationID |-> OrgOther, UserID |-> UserCarol] }

Emails == {"e1", "e2"}

InitialGroups ==
    { [ID |-> GroupEveryone, Name |-> AllUsersGroup, OrganizationID |-> OrgAcme],
      [ID |-> GroupInfra, Name |-> "infra", OrganizationID |-> OrgAcme],
      [ID |-> GroupDevs, Name |-> "devs", OrganizationID |-> OrgAcme] }

InitialGroupMembers ==
    { [GroupID |-> GroupEveryone, UserID |-> UserAlice],
      [GroupID |-> GroupDevs, UserID |-> UserAlice] }

----------------------------------------------------------------------------
(* chi route parameters *)

\* chi.RouteParams.Add: append a key/value pair
URLParamsAdd(params, key, value) == Append(params, [key |-> key, value |-> value])

\* chi.URLParam: the value of the last pair with that key, "" when absent
URLParam(params, key) ==
    LET idx == {i \in 1..Len(params) : params[i].key = key}
    IN  IF idx = {} THEN ""
        ELSE params[CHOOSE i \in idx : \A j \in idx : j <= i].value

----------------------------------------------------------------------------
(* Requests *)

Stages == {"ExtractGroupParam", "ExtractOrganizationParam", "ExtractOrganizationMemberParam"}

Handlers == {"postGroupByOrganization", "patchGroup", "deleteGroup", "group", "groups"}

EmptyContext == [group |-> {}, organization |-> {}, member |-> {}]

EmptyBody == [Name |-> "", AddUsers |-> <<>>, RemoveUsers |-> <<>>]

\* a request as received by the router: its middleware chain, its handler,
\* the URL parameters matched from the path and the body it carries
NewRequest(chain, handler, params, body) ==
    [ pc |-> IF chain = <<>> THEN "handler" ELSE "mw", chain |-> chain, stage |-> 1, handler |-> handler,
      urlParams |-> params, ctx |-> EmptyContext, body |-> body,
      status |-> 0, ops |-> <<>>, gate |-> <<>>, group |-> {},
      errs |-> <<>>, req |-> {}, txApplied |-> 0, resp |-> {},
      list |-> <<>>, respList |-> <<>> ]

\* the response is written and the chain stops
Respond(q, code) == [q EXCEPT !.pc = "done", !.status = code]

\* next.ServeHTTP(rw, r.WithContext(ctx)): the next stage, or the handler
ServeNext(q) ==
    IF q.stage < Len(q.chain)
    THEN [q EXCEPT !.stage = @ + 1]
    ELSE [q EXCEPT !.stage = @ + 1, !.pc = "handler"]

\* the request issued one more store call, which returned err
Called(q, op, err) == [q EXCEPT !.ops = Append(@, op), !.errs = Append(@, err)]

\* the error of q's latest store call
LastErr(q) == IF q.errs = <<>> THEN "nil" ELSE q.errs[Len(q.errs)]

\* the error of a query: the store's failure, else sql.ErrNoRows when it
\* found no row
QueryErr(fault, rows) ==
    IF fault # "none" THEN fault ELSE IF rows = {} THEN "norows" ELSE "nil"

AtStage(q, name) ==
    /\ q.pc = "mw"
    /\ q.stage <= Len(q.chain)
    /\ q.chain[q.stage] = name

----------------------------------------------------------------------------
(* Store queries of the resolver stages *)

\* the rows a query returned; no row is sql.ErrNoRows
GetGroupByID(id) == {g \in dbGroups : g.ID = id}

GetDefaultOrganization == {o \in Organizations : o.IsDefault}

GetOrganizationByID(id) == {o \in Organizations : o.ID = id}

GetOrganizationByName(name) == {o \in Organizations : o.Name = name}

GetUserByID(id) == {u \in dbUsers : u.ID = id}

\* database.ExpectOne(db.OrganizationMembers(org, user))
OrganizationMembersOf(orgID, userID) ==
    {m \in OrganizationMembers : m.OrganizationID = orgID /\ m.UserID = userID}

\* how a store call can fail besides returning no rows
StoreFaults == {"none", "internal"}
\* the dbauthz-wrapped store can also deny the read; httpapi.Is404Error
\* treats that like sql.ErrNoRows
AuthzStoreFaults == {"none", "unauthorized", "internal"}

----------------------------------------------------------------------------
(* httpmw.ExtractGroupParam *)

\* parseUUID(rw, r, param): the parsed values of the parameter (none: a 400
\* was written)
parseUUID(q, param) == UUIDParse(URLParam(q.urlParams, param))

\* the group stage publishing nothing
InjectOrganizationOmitted(params, group) == params

\* the route parameters after the group stage published the owner
InjectOrganization(params, group) ==
    URLParamsAdd(params, "organization", UUIDString(group.OrganizationID))

\* the stage registering whatever the lookup returned before looking at its
\* error
ExtractGroupParamUnchecked(q, fault) ==
    LET parsed == parseUUID(q, "group")
    IN  IF parsed = {} THEN Respond(q, 400)
        ELSE LET groupID == CHOOSE u \in parsed : TRUE
                 rows == GetGroupByID(groupID)
                 err == QueryErr(fault, rows)
                 group == IF rows = {}
                          THEN [ID |-> NilUUID, Name |-> "", OrganizationID |-> NilUUID]
                          ELSE CHOOSE g \in rows : TRUE
                 q1 == [Called(q, "GetGroupByID", err) EXCEPT
                           !.ctx.group = {group},
                           !.urlParams = InjectOrganization(@, group)]
             IN  IF err = "norows" THEN Respond(q1, 404)
                 ELSE IF err # "nil" THEN Respond(q1, 500)
                 ELSE ServeNext(q1)

\* what the stage adds to the request once the lookup succeeded (lines 51-52)
RegisterGroup(q, group) ==
    [q EXCEPT !.ctx.group = {group}, !.urlParams = InjectOrganization(@, group)]

ExtractGroupParamServe(q, fault) ==
    LET parsed == parseUUID(q, "group")
    IN  IF parsed = {} THEN Respond(q, 400)
        ELSE LET groupID == CHOOSE u \in parsed : TRUE
                 rows == GetGroupByID(groupID)
                 err == QueryErr(fault, rows)
                 q1 == Called(q, "GetGroupByID", err)
             IN  IF err = "norows" THEN Respond(q1, 404)
                 ELSE IF err # "nil" THEN Respond(q1, 500)
                 ELSE LET group == CHOOSE g \in rows : TRUE
                      IN  ServeNext(RegisterGroup(q1, group))

ExtractGroupParam(p) ==
    /\ AtStage(r[p], "ExtractGroupParam")
    /\ \E fault \in StoreFaults :
           r' = [r EXCEPT ![p] = ExtractGroupParamServe(r[p], fault)]
    /\ UNCHANGED <<dbGroups, dbGroupMembers, dbUsers>>

----------------------------------------------------------------------------
(* httpmw.ExtractOrganizationParam *)

\* the stage without the branch for the default organization
OrganizationLookupNoAlias(arg) ==
    IF UUIDParse(arg) # {} THEN "GetOrganizationByID" ELSE "GetOrganizationByName"

\* which lookup the stage issues for the parameter value arg
OrganizationLookup(arg) ==
    IF arg = DefaultOrganization \/ arg = UUIDString(NilUUID)
    THEN "GetDefaultOrganization"
    ELSE IF UUIDParse(arg) # {} THEN "GetOrganizationByID"
    ELSE "GetOrganizationByName"

\* the lookup by identifier falling back to the lookup by name
OrganizationRowsNameFallback(arg) ==
    CASE OrganizationLookup(arg) = "GetDefaultOrganization" -> GetDefaultOrganization
      [] OrganizationLookup(arg) = "GetOrganizationByID" ->
             IF GetOrganizationByID(CHOOSE u \in UUIDParse(arg) : TRUE) # {}
             THEN GetOrganizationByID(CHOOSE u \in UUIDParse(arg) : TRUE)
             ELSE GetOrganizationByName(arg)
      [] OTHER -> GetOrganizationByName(arg)

\* the rows that lookup returns
OrganizationRows(arg) ==
    CASE OrganizationLookup(arg) = "GetDefaultOrganization" -> GetDefaultOrganization
      [] OrganizationLookup(arg) = "GetOrganizationByID" ->
             GetOrganizationByID(CHOOSE u \in UUIDParse(arg) : TRUE)
      [] OTHER -> GetOrganizationByName(arg)

\* httpapi.Is404Error(err)
Is404Error(err) == err \in {"norows", "unauthorized"}

ExtractOrganizationParamServe(q, fault) ==
    LET arg == URLParam(q.urlParams, "organization")
    IN  IF arg = "" THEN Respond(q, 400)
        ELSE LET rows == OrganizationRows(arg)
                 dbErr == QueryErr(fault, rows)
                 q1 == Called(q, OrganizationLookup(arg), dbErr)
             IN  IF Is404Error(dbErr) THEN Respond(q1, 404)
                 ELSE IF dbErr # "nil" THEN Respond(q1, 500)
                 ELSE ServeNext([q1 EXCEPT
                          !.ctx.organization = {CHOOSE o \in rows : TRUE}])

ExtractOrganizationParam(p) ==
    /\ AtStage(r[p], "ExtractOrganizationParam")
    /\ \E fault \in AuthzStoreFaults :
           r' = [r EXCEPT ![p] = ExtractOrganizationParamServe(r[p], fault)]
    /\ UNCHANGED <<dbGroups, dbGroupMembers, dbUsers>>

----------------------------------------------------------------------------
(* httpmw.ExtractOrganizationMemberParam *)

\* the stored value carrying one more field of the user record
OrganizationMemberWithEmail(row, user) ==
    [OrganizationMember |-> row, Username |-> user.Username, AvatarURL |-> user.AvatarURL,
     Email |-> user.Email]

\* the value stored under organizationMemberParamContextKey
OrganizationMember(row, user) ==
    [OrganizationMember |-> row, Username |-> user.Username, AvatarURL |-> user.AvatarURL]

\* extractUserContext(dbauthz.AsSystemRestricted(ctx), db, rw, r): the user
\* named by the "user" parameter, or the status of the response it wrote
extractUserContext(q, fault) ==
    LET parsed == parseUUID(q, "user")
        rows == IF parsed = {} THEN {} ELSE GetUserByID(CHOOSE u \in parsed : TRUE)
        err == QueryErr(fault, rows)
    IN  IF parsed = {} THEN [ok |-> FALSE, status |-> 400, user |-> {}, err |-> "nil"]
        ELSE IF err = "norows" THEN [ok |-> FALSE, status |-> 404, user |-> {}, err |-> err]
        ELSE IF err # "nil" THEN [ok |-> FALSE, status |-> 500, user |-> {}, err |-> err]
        ELSE [ok |-> TRUE, status |-> 0, user |-> rows, err |-> err]

\* the accessor going on with the zero value instead of panicking
PanicSilenced(q) == [q EXCEPT !.pc = "done", !.status = 200]

\* a developer error: the accessor found no value under its key
Panic(q) == [q EXCEPT !.pc = "panic"]

ExtractOrganizationMemberParamServe(q, userFault, fault) ==
    LET got == extractUserContext(q, userFault)
    IN  IF ~got.ok
        THEN Respond(IF got.status = 400 THEN q ELSE Called(q, "GetUserByID", got.err),
                     got.status)
        ELSE LET user == CHOOSE u \in got.user : TRUE
                 q1 == Called(q, "GetUserByID", got.err)
             IN  IF q.ctx.organization = {} THEN Panic(q1)
                 ELSE LET organization == CHOOSE o \in q.ctx.organization : TRUE
                          rows == OrganizationMembersOf(organization.ID, user.ID)
                          err == IF fault = "none" /\ Cardinality(rows) > 1 THEN "internal"
                                 ELSE QueryErr(fault, rows)
                          q2 == Called(q1, "OrganizationMembers", err)
                      IN  IF Is404Error(err) THEN Respond(q2, 404)
                          ELSE IF err # "nil" THEN Respond(q2, 500)
                          ELSE ServeNext([q2 EXCEPT !.ctx.member =
                                   {OrganizationMember(CHOOSE m \in rows : TRUE, user)}])

ExtractOrganizationMemberParam(p) ==
    /\ AtStage(r[p], "ExtractOrganizationMemberParam")
    /\ \E userFault \in StoreFaults, fault \in AuthzStoreFaults :
           r' = [r EXCEPT ![p] = ExtractOrganizationMemberParamServe(r[p], userFault, fault)]
    /\ UNCHANGED <<dbGroups, dbGroupMembers, dbUsers>>

----------------------------------------------------------------------------
(* Context accessors and the authorization gate *)

\* httpmw.GroupParam(r): the stored group (none: the accessor panics)
GroupParam(q) == q.ctx.group

\* httpmw.OrganizationParam(r)
OrganizationParam(q) == q.ctx.organization

\* httpmw.OrganizationMemberParam(r)
OrganizationMemberParam(q) == q.ctx.member

\* rbac.ResourceGroup: the group resource type, in no organization
ResourceGroup == [Type |-> "group", ID |-> NilUUID, OrgID |-> NilUUID]

\* database.Group.RBACObject(): the group resource of that row
RBACObject(group) == [Type |-> "group", ID |-> group.ID, OrgID |-> group.OrganizationID]

\* api.Authorize(r, action, object): the engine answered allowed
Authorize(q, action, object, allowed) ==
    [q EXCEPT !.gate = Append(@, [action |-> action, object |-> object,
                                  allowed |-> allowed, after |-> Len(q.ops)])]

----------------------------------------------------------------------------
(* Request bodies and responses *)

GroupNames == {"", AllUsersGroup, "infra", "platform"}

\* the strings a caller puts in AddUsers / RemoveUsers
UserIDStrings == {UUIDString(UserAlice), UUIDString(UserCarol), "not-a-uuid"}

SeqsUpTo(S, n) == UNION {[1..k -> S] : k \in 0..n}

\* codersdk.PatchGroupRequest
PatchGroupRequests ==
    [Name : GroupNames, AddUsers : SeqsUpTo(UserIDStrings, MaxAdd),
     RemoveUsers : SeqsUpTo(UserIDStrings, MaxRemove)]

convertUser(user, organizationIDs) ==
    [ID |-> user.ID, Email |-> user.Email, Username |-> user.Username,
     AvatarURL |-> user.AvatarURL, OrganizationIDs |-> organizationIDs]

convertGroup(g, users) ==
    [ID |-> g.ID, Name |-> g.Name, OrganizationID |-> g.OrganizationID,
     Members |-> {convertUser(u, {g.OrganizationID}) : u \in users}]

\* db.GetGroupMembers(groupID): the users joined to the membership rows
GetGroupMembers(groupID) ==
    {u \in dbUsers : [GroupID |-> groupID, UserID |-> u.ID] \in dbGroupMembers}

\* what a handler step leaves: the request and the two mutable tables
Outcome(q, groups, members) == [q |-> q, groups |-> groups, members |-> members]

Unchanged(q) == Outcome(q, dbGroups, dbGroupMembers)

----------------------------------------------------------------------------
(* postGroupByOrganization *)

\* the object postGroupByOrganization hands to the gate (line 25)
CreateGroupObject(org) == ResourceGroup

\* db.InsertGroup(ID, Name, OrganizationID): a name is unique in its
\* organization
InsertGroupErr(group, fault) ==
    IF fault # "none" THEN fault
    ELSE IF \E g \in dbGroups : g.OrganizationID = group.OrganizationID /\ g.Name = group.Name
    THEN "unique"
    ELSE "nil"

postGroupByOrganizationServe(p, q, allowed, readOK, fault) ==
    IF OrganizationParam(q) = {} THEN Unchanged(Panic(q))
    ELSE
    LET org == CHOOSE o \in OrganizationParam(q) : TRUE
        q1 == Authorize(q, "create", CreateGroupObject(org), allowed)
        req == q.body
        q2 == [q1 EXCEPT !.req = {req}]
        group == [ID |-> NewUUID(p), Name |-> req.Name, OrganizationID |-> org.ID]
        err == InsertGroupErr(group, fault)
        q3 == Called(q2, "InsertGroup", err)
    IN  IF ~allowed THEN Unchanged(Respond(q1, 404))
        ELSE IF ~readOK THEN Unchanged(Respond(q1, 400))
        ELSE IF req.Name = AllUsersGroup THEN Unchanged(Respond(q2, 400))
        ELSE IF err = "unique" THEN Unchanged(Respond(q3, 409))
        ELSE IF err # "nil" THEN Unchanged(Respond(q3, 500))
        ELSE Outcome([Respond(q3, 201) EXCEPT !.resp = {convertGroup(group, {})}],
                     dbGroups \cup {group}, dbGroupMembers)

postGroupByOrganization(p) ==
    /\ r[p].pc = "handler"
    /\ r[p].handler = "postGroupByOrganization"
    /\ \E allowed \in BOOLEAN, readOK \in BOOLEAN, fault \in StoreFaults :
           LET out == postGroupByOrganizationServe(p, r[p], allowed, readOK, fault)
           IN  /\ r' = [r EXCEPT ![p] = out.q]
               /\ dbGroups' = out.groups
               /\ dbGroupMembers' = out.members
    /\ UNCHANGED dbUsers

----------------------------------------------------------------------------
(* patchGroup *)

\* uuid.MustParse(id) of an id that parsed before
MustParse(id) == CHOOSE u \in UUIDParse(id) : TRUE

\* GetOrganizationMemberByUserID(org, user): the rows found
GetOrganizationMemberByUserID(orgID, userID) ==
    {m \in OrganizationMembers : m.OrganizationID = orgID /\ m.UserID = userID}

\* the loop answering a malformed id like a missing membership
UserCheckMalformedAs412(users, orgID, i, faultAt) ==
    IF UUIDParse(users[i]) = {} THEN 412
    ELSE IF faultAt # i /\ GetOrganizationMemberByUserID(orgID, MustParse(users[i])) = {}
    THEN 412
    ELSE IF faultAt = i THEN 500
    ELSE 0

\* the loop answering a missing membership like a malformed id
UserCheckBadRequest(users, orgID, i, faultAt) ==
    IF UUIDParse(users[i]) = {} THEN 400
    ELSE IF faultAt # i /\ GetOrganizationMemberByUserID(orgID, MustParse(users[i])) = {}
    THEN 400
    ELSE IF faultAt = i THEN 500
    ELSE 0

\* the status the validation loop writes at position i of users (0: the id
\* passes); faultAt is the position whose membership lookup fails otherwise
UserCheck(users, orgID, i, faultAt) ==
    IF UUIDParse(users[i]) = {} THEN 400
    ELSE IF faultAt # i /\ GetOrganizationMemberByUserID(orgID, MustParse(users[i])) = {}
    THEN 412
    ELSE IF faultAt = i THEN 500
    ELSE 0

\* the request issued n more calls of op, the last of which returned err
CalledTimes(q, op, n, err) ==
    [q EXCEPT !.ops = @ \o [i \in 1..n |-> op],
              !.errs = @ \o [i \in 1..n |-> IF i < n THEN "nil" ELSE err]]

\* the check of the reserved name left out
ReservedNameUnchecked(req) == FALSE

\* line 77: the rename asks for the reserved name
ReservedName(req) == req.Name # "" /\ req.Name = AllUsersGroup

\* lines 61-111: accessor, gate, body, reserved name, the loop over
\* AddUsers ++ RemoveUsers
patchGroupValidate(q, allowed, readOK, faultAt) ==
    IF GroupParam(q) = {} THEN Panic(q)
    ELSE
    LET group == CHOOSE g \in GroupParam(q) : TRUE
        q1 == Authorize([q EXCEPT !.group = {group}], "update", RBACObject(group), allowed)
        req == q.body
        q2 == [q1 EXCEPT !.req = {req}]
        users == req.AddUsers \o req.RemoveUsers
        failing == {i \in 1..Len(users) :
                        UserCheck(users, group.OrganizationID, i, faultAt) # 0}
        first == CHOOSE i \in failing : \A j \in failing : i <= j
    IN  IF ~allowed THEN Respond(q1, 404)
        ELSE IF ~readOK THEN Respond(q1, 400)
        ELSE IF ReservedName(req) THEN Respond(q2, 400)
        ELSE IF failing # {}
        THEN LET code == UserCheck(users, group.OrganizationID, first, faultAt)
             IN  IF code = 400
                 THEN Respond(CalledTimes(q2, "GetOrganizationMemberByUserID", first - 1, "nil"),
                              code)
                 ELSE Respond(CalledTimes(q2, "GetOrganizationMemberByUserID", first,
                                          IF code = 412 THEN "norows" ELSE "internal"), code)
        ELSE [CalledTimes(q2, "GetOrganizationMemberByUserID", Len(users), "nil")
                 EXCEPT !.pc = IF req.Name # "" THEN "precheck" ELSE "tx"]

patchGroup(p) ==
    /\ r[p].pc = "handler"
    /\ r[p].handler = "patchGroup"
    /\ \E allowed \in BOOLEAN, readOK \in BOOLEAN,
          faultAt \in 0..(Len(r[p].body.AddUsers) + Len(r[p].body.RemoveUsers)) :
           r' = [r EXCEPT ![p] = patchGroupValidate(r[p], allowed, readOK, faultAt)]
    /\ UNCHANGED <<dbGroups, dbGroupMembers, dbUsers>>

\* GetGroupByOrgAndName(org, name): the rows found
GetGroupByOrgAndName(orgID, name) ==
    {g \in dbGroups : g.OrganizationID = orgID /\ g.Name = name}

\* the pre-check going on whatever the lookup returned
patchGroupNameCheckSkipped(q, fault) ==
    LET group == CHOOSE g \in q.group : TRUE
        rows == GetGroupByOrgAndName(group.OrganizationID, q.body.Name)
        err == QueryErr(fault, rows)
        q1 == Called(q, "GetGroupByOrgAndName", err)
    IN  [q1 EXCEPT !.pc = "tx"]

\* lines 112-123: the name pre-check; only a lookup without error rejects
patchGroupNameCheck(q, fault) ==
    LET group == CHOOSE g \in q.group : TRUE
        rows == GetGroupByOrgAndName(group.OrganizationID, q.body.Name)
        err == QueryErr(fault, rows)
        q1 == Called(q, "GetGroupByOrgAndName", err)
    IN  IF err = "nil" THEN Respond(q1, 409)
        ELSE [q1 EXCEPT !.pc = "tx"]

patchGroupPrecheck(p) ==
    /\ r[p].pc = "precheck"
    /\ \E fault \in StoreFaults :
           r' = [r EXCEPT ![p] = patchGroupNameCheck(r[p], fault)]
    /\ UNCHANGED <<dbGroups, dbGroupMembers, dbUsers>>

\* the calls with the deletes issued before the inserts
TxOpsRemoveFirst(req) ==
    (IF req.Name # "" THEN <<[op |-> "UpdateGroupByID", user |-> NilUUID]>> ELSE <<>>)
    \o [i \in 1..Len(req.RemoveUsers) |->
           [op |-> "DeleteGroupMember", user |-> MustParse(req.RemoveUsers[i])]]
    \o [i \in 1..Len(req.AddUsers) |->
           [op |-> "InsertGroupMember", user |-> MustParse(req.AddUsers[i])]]

\* the store calls of the function passed to InTx, in order (lines 126-150)
TxOps(req) ==
    (IF req.Name # "" THEN <<[op |-> "UpdateGroupByID", user |-> NilUUID]>> ELSE <<>>)
    \o [i \in 1..Len(req.AddUsers) |->
           [op |-> "InsertGroupMember", user |-> MustParse(req.AddUsers[i])]]
    \o [i \in 1..Len(req.RemoveUsers) |->
           [op |-> "DeleteGroupMember", user |-> MustParse(req.RemoveUsers[i])]]

\* tx.UpdateGroupByID(ID, Name): the row must exist and the name must be free
\* in the organization
UpdateGroupByID(st, groupID, name) ==
    LET rows == {g \in st.groups : g.ID = groupID}
        row == CHOOSE g \in rows : TRUE
    IN  IF rows = {} THEN [st EXCEPT !.err = "norows"]
        ELSE IF \E g \in st.groups : /\ g.ID # groupID
                                     /\ g.OrganizationID = row.OrganizationID
                                     /\ g.Name = name
        THEN [st EXCEPT !.err = "unique"]
        ELSE [st EXCEPT !.groups = (@ \ rows) \cup {[row EXCEPT !.Name = name]}]

\* tx.InsertGroupMember(GroupID, UserID): one row per (group, user)
InsertGroupMember(st, groupID, userID) ==
    IF [GroupID |-> groupID, UserID |-> userID] \in st.members
    THEN [st EXCEPT !.err = "unique"]
    ELSE IF \A g \in st.groups : g.ID # groupID
    THEN [st EXCEPT !.err = "internal"]
    ELSE [st EXCEPT !.members = @ \cup {[GroupID |-> groupID, UserID |-> userID]}]

\* tx.DeleteGroupMember(userID): the call names the user only
DeleteGroupMember(st, userID) ==
    [st EXCEPT !.members = {m \in @ : m.UserID # userID}]

ApplyTxOp(st, groupID, name, o) ==
    CASE o.op = "UpdateGroupByID" -> UpdateGroupByID(st, groupID, name)
      [] o.op = "InsertGroupMember" -> InsertGroupMember(st, groupID, o.user)
      [] OTHER -> DeleteGroupMember(st, o.user)

\* the function passed to InTx run from call i on; the call at position
\* faultAt fails with a store error; the first error ends the function
RECURSIVE RunTx(_, _, _, _, _, _)
RunTx(ops, i, st, groupID, name, faultAt) ==
    IF i > Len(ops) THEN st
    ELSE IF faultAt = i THEN [st EXCEPT !.err = "internal", !.issued = i]
    ELSE LET next == ApplyTxOp(st, groupID, name, ops[i])
         IN  IF next.err # "nil" THEN [next EXCEPT !.issued = i]
             ELSE RunTx(ops, i + 1, [next EXCEPT !.applied = i, !.issued = i],
                        groupID, name, faultAt)

\* lines 125-152 as written: the tables the function leaves and its error
patchGroupTx(q, faultAt) ==
    RunTx(TxOps(q.body), 1,
          [groups |-> dbGroups, members |-> dbGroupMembers, err |-> "nil",
           applied |-> 0, issued |-> 0],
          (CHOOSE g \in q.group : TRUE).ID, q.body.Name, faultAt)

\* database.Store.InTx: commit what the function did if it returned nil,
\* else roll everything back
InTx(after) ==
    IF after.err = "nil" THEN after
    ELSE [after EXCEPT !.groups = dbGroups, !.members = dbGroupMembers]

\* the same calls issued on api.Database instead of tx: nothing is rolled back
patchGroupApplyNoTx(q, faultAt) == patchGroupTx(q, faultAt)

\* line 125: err := api.Database.InTx(func(tx database.Store) error {...})
patchGroupApply(q, faultAt) == InTx(patchGroupTx(q, faultAt))

\* the mapping without the case of the unique violation
SectionStatusNoUnique(err) ==
    IF err = "norows" THEN 412
    ELSE IF err # "nil" THEN 500
    ELSE 0

\* lines 153-170: the status written for the error InTx returned (0: none,
\* the handler goes on)
SectionStatus(err) ==
    IF err = "unique" THEN 412
    ELSE IF err = "norows" THEN 412
    ELSE IF err # "nil" THEN 500
    ELSE 0

\* lines 125-170: the atomic section and the mapping of its error
patchGroupCommit(q, faultAt) ==
    LET res == patchGroupApply(q, faultAt)
        n == Len(TxOps(q.body))
        q1 == [q EXCEPT !.ops = @ \o [i \in 1..res.issued |-> TxOps(q.body)[i].op],
                        !.errs = @ \o [i \in 1..res.issued |->
                                          IF i <= res.applied THEN "nil" ELSE res.err],
                        !.txApplied = res.applied]
        group == CHOOSE g \in q.group : TRUE
        updated == IF q.body.Name # "" THEN [group EXCEPT !.Name = q.body.Name] ELSE group
    IN  IF SectionStatus(res.err) # 0
        THEN Outcome(Respond(q1, SectionStatus(res.err)), res.groups, res.members)
        ELSE Outcome([q1 EXCEPT !.pc = "postread", !.group = {updated}],
                     res.groups, res.members)

patchGroupInTx(p) ==
    /\ r[p].pc = "tx"
    /\ \E faultAt \in 0..Len(TxOps(r[p].body)) :
           LET out == patchGroupCommit(r[p], faultAt)
           IN  /\ r' = [r EXCEPT ![p] = out.q]
               /\ dbGroups' = out.groups
               /\ dbGroupMembers' = out.members
    /\ UNCHANGED dbUsers

\* lines 172-178: the roster read after the commit and the response
patchGroupRespond(q, fault) ==
    LET group == CHOOSE g \in q.group : TRUE
        q1 == Called(q, "GetGroupMembers", IF fault # "none" THEN fault ELSE "nil")
    IN  IF fault # "none" THEN Respond(q1, 500)
        ELSE [Respond(q1, 200) EXCEPT
                 !.resp = {convertGroup(group, GetGroupMembers(group.ID))}]

patchGroupPostRead(p) ==
    /\ r[p].pc = "postread"
    /\ \E fault \in StoreFaults :
           r' = [r EXCEPT ![p] = patchGroupRespond(r[p], fault)]
    /\ UNCHANGED <<dbGroups, dbGroupMembers, dbUsers>>

----------------------------------------------------------------------------
(* deleteGroup *)

\* db.DeleteGroupByID(id): the row goes, and its membership rows with it
DeleteGroupByID(id) ==
    Outcome(<<>>, {g \in dbGroups : g.ID # id}, {m \in dbGroupMembers : m.GroupID # id})

\* the check of the reserved group left out
IsReservedGroupUnchecked(group) == FALSE

\* line 192: the resolved group holds the reserved name
IsReservedGroup(group) == group.Name = AllUsersGroup

deleteGroupServe(q, allowed, fault) ==
    IF GroupParam(q) = {} THEN Unchanged(Panic(q))
    ELSE
    LET group == CHOOSE g \in GroupParam(q) : TRUE
        q1 == Authorize([q EXCEPT !.group = {group}], "delete", RBACObject(group), allowed)
        q2 == Called(q1, "DeleteGroupByID", IF fault # "none" THEN fault ELSE "nil")
        del == DeleteGroupByID(group.ID)
    IN  IF ~allowed THEN Unchanged(Respond(q1, 404))
        ELSE IF IsReservedGroup(group) THEN Unchanged(Respond(q1, 400))
        ELSE IF fault # "none" THEN Unchanged(Respond(q2, 500))
        ELSE Outcome(Respond(q2, 200), del.groups, del.members)

deleteGroup(p) ==
    /\ r[p].pc = "handler"
    /\ r[p].handler = "deleteGroup"
    /\ \E allowed \in BOOLEAN, fault \in StoreFaults :
           LET out == deleteGroupServe(r[p], allowed, fault)
           IN  /\ r' = [r EXCEPT ![p] = out.q]
               /\ dbGroups' = out.groups
               /\ dbGroupMembers' = out.members
    /\ UNCHANGED dbUsers

----------------------------------------------------------------------------
(* group *)

groupServe(q, allowed, fault) ==
    IF GroupParam(q) = {} THEN Panic(q)
    ELSE
    LET grp == CHOOSE g \in GroupParam(q) : TRUE
        q1 == Authorize([q EXCEPT !.group = {grp}], "read", RBACObject(grp), allowed)
        q2 == Called(q1, "GetGroupMembers", IF fault # "none" THEN fault ELSE "nil")
    IN  IF ~allowed THEN Respond(q1, 404)
        ELSE IF fault # "none" THEN Respond(q2, 500)
        ELSE [Respond(q2, 200) EXCEPT !.resp = {convertGroup(grp, GetGroupMembers(grp.ID))}]

group(p) ==
    /\ r[p].pc = "handler"
    /\ r[p].handler = "group"
    /\ \E allowed \in BOOLEAN, fault \in StoreFaults :
           r' = [r EXCEPT ![p] = groupServe(r[p], allowed, fault)]
    /\ UNCHANGED <<dbGroups, dbGroupMembers, dbUsers>>

----------------------------------------------------------------------------
(* groups *)

\* the rows of a set in the order the store returns them (by identifier)
RECURSIVE InOrder(_)
InOrder(rows) ==
    IF rows = {} THEN <<>>
    ELSE LET first == CHOOSE g \in rows : \A h \in rows : g.ID <= h.ID
         IN  <<first>> \o InOrder(rows \ {first})

GetGroupsByOrganizationID(orgID) == InOrder({g \in dbGroups : g.OrganizationID = orgID})

\* coderd.AuthorizeFilter(auth, r, action, objects): the objects the engine
\* allows (those with an identifier in readable), in their order
AuthorizeFilter(objects, readable) == SelectSeq(objects, LAMBDA g : g.ID \in readable)

\* the list handed on as the store returned it
groupsListUnfiltered(q, fault, filterOK, readable) ==
    IF OrganizationParam(q) = {} THEN Panic(q)
    ELSE
    LET org == CHOOSE o \in OrganizationParam(q) : TRUE
        q1 == Called(q, "GetGroupsByOrganizationID", IF fault # "none" THEN fault ELSE "nil")
        listed == GetGroupsByOrganizationID(org.ID)
        q2 == [q1 EXCEPT !.gate = @ \o
                 [i \in 1..Len(listed) |->
                    [action |-> "read", object |-> RBACObject(listed[i]),
                     allowed |-> listed[i].ID \in readable, after |-> Len(q1.ops)]]]
    IN  IF fault # "none" THEN Respond(q1, 500)
        ELSE IF ~filterOK THEN Respond(q1, 500)
        ELSE [q2 EXCEPT !.pc = "members", !.list = listed]

\* lines 230-250: the list read and its filter; filterOK is false when the
\* filter itself fails
groupsList(q, fault, filterOK, readable) ==
    IF OrganizationParam(q) = {} THEN Panic(q)
    ELSE
    LET org == CHOOSE o \in OrganizationParam(q) : TRUE
        q1 == Called(q, "GetGroupsByOrganizationID", IF fault # "none" THEN fault ELSE "nil")
        listed == GetGroupsByOrganizationID(org.ID)
        q2 == [q1 EXCEPT !.gate = @ \o
                 [i \in 1..Len(listed) |->
                    [action |-> "read", object |-> RBACObject(listed[i]),
                     allowed |-> listed[i].ID \in readable, after |-> Len(q1.ops)]]]
    IN  IF fault # "none" THEN Respond(q1, 500)
        ELSE IF ~filterOK THEN Respond(q1, 500)
        ELSE [q2 EXCEPT !.pc = "members", !.list = AuthorizeFilter(listed, readable)]

groups(p) ==
    /\ r[p].pc = "handler"
    /\ r[p].handler = "groups"
    /\ \E fault \in StoreFaults, filterOK \in BOOLEAN,
          readable \in SUBSET {g.ID : g \in OrganizationParam(r[p]) \cup dbGroups} :
           r' = [r EXCEPT ![p] = groupsList(r[p], fault, filterOK, readable)]
    /\ UNCHANGED <<dbGroups, dbGroupMembers, dbUsers>>

\* lines 252-263: one round of the loop reading the members of the next
\* group, or the response once the list is exhausted
groupsNext(q, fault) ==
    IF q.list = <<>> THEN Respond(q, 200)
    ELSE LET grp == Head(q.list)
             q1 == Called(q, "GetGroupMembers", IF fault # "none" THEN fault ELSE "nil")
         IN  IF fault # "none" THEN Respond(q1, 500)
             ELSE [q1 EXCEPT !.list = Tail(@),
                      !.respList = Append(@, convertGroup(grp, GetGroupMembers(grp.ID)))]

groupsMembers(p) ==
    /\ r[p].pc = "members"
    /\ \E fault \in StoreFaults :
           r' = [r EXCEPT ![p] = groupsNext(r[p], fault)]
    /\ UNCHANGED <<dbGroups, dbGroupMembers, dbUsers>>

----------------------------------------------------------------------------
(* Requests received and the specification *)

\* values callers put in the path
OrganizationArgs ==
    { DefaultOrganization, UUIDString(NilUUID), UUIDUrn(NilUUID),
      UUIDUrn(OrgOther), UUIDString(GroupAbsent), "acme", "nobody" }

GroupArgs == { UUIDString(GroupInfra), UUIDString(GroupAbsent), "not-a-uuid" }

UserArgs == { UUIDString(UserAlice), UUIDString(UserCarol), "not-a-uuid" }

\* the parameters matched from a path: each key is present at most once
Param(key, values) == {<<>>} \cup {<<[key |-> key, value |-> v]>> : v \in values}

PathParams ==
    { o \o g \o u : o \in Param("organization", OrganizationArgs),
                    g \in Param("group", GroupArgs),
                    u \in Param("user", UserArgs) }

\* the routes of the group API with the requests callers send to them:
\* POST and GET /organizations/{organization}/groups,
\* PATCH, DELETE and GET /groups/{group}
OrganizationRouteArgs == {UUIDString(OrgAcme), UUIDUrn(OrgOther)}

PostGroupRequests(names) ==
    { NewRequest(<<"ExtractOrganizationParam">>, "postGroupByOrganization",
                 <<[key |-> "organization", value |-> v]>>,
                 [Name |-> n, AddUsers |-> <<>>, RemoveUsers |-> <<>>])
        : v \in OrganizationRouteArgs, n \in names }

ListGroupsRequests ==
    { NewRequest(<<"ExtractOrganizationParam">>, "groups",
                 <<[key |-> "organization", value |-> v]>>, EmptyBody)
        : v \in OrganizationRouteArgs }

PatchRequests(groupIDs, bodies) ==
    { NewRequest(<<"ExtractGroupParam">>, "patchGroup",
                 <<[key |-> "group", value |-> UUIDString(g)]>>, b)
        : g \in groupIDs, b \in bodies }

GroupRequests(groupIDs, handlers) ==
    { NewRequest(<<"ExtractGroupParam">>, h,
                 <<[key |-> "group", value |-> UUIDString(g)]>>, EmptyBody)
        : g \in groupIDs, h \in handlers }

\* the PatchGroupRequests that pass the checks made on the fixed tables:
\* no reserved name, every id that of a member of the organization
ValidPatchGroupRequests ==
    [Name : {"", "platform"},
     AddUsers : SeqsUpTo({UUIDString(UserAlice)}, MaxAdd),
     RemoveUsers : SeqsUpTo({UUIDString(UserAlice)}, MaxRemove)]

\* a request slot that receives nothing
Idle == [NewRequest(<<>>, "group", <<>>, EmptyBody) EXCEPT !.pc = "idle"]

OneUserTable(email) ==
    { [ID |-> UserAlice, Username |-> "alice", AvatarURL |-> "a.png", Email |-> email],
      [ID |-> UserBob, Username |-> "bob", AvatarURL |-> "b.png", Email |-> "e1"],
      [ID |-> UserCarol, Username |-> "carol", AvatarURL |-> "c.png", Email |-> "e1"] }

\* one request through any chain of stages, with any path parameters
InitChain ==
    /\ dbUsers \in {OneUserTable(e) : e \in Emails}
    /\ \E chain \in SeqsUpTo(Stages, MaxChain), h \in Handlers, params \in PathParams :
           r = [p \in Requests |->
                   IF p = 1 THEN NewRequest(chain, h, params, EmptyBody) ELSE Idle]

\* one request on a route of the group API, with any body
InitSingle ==
    /\ dbUsers = OneUserTable("e1")
    /\ \E q \in PostGroupRequests(GroupNames) \cup ListGroupsRequests
                 \cup PatchRequests({GroupEveryone, GroupInfra, GroupDevs}, PatchGroupRequests)
                 \cup GroupRequests({GroupEveryone, GroupInfra, GroupDevs},
                                    {"deleteGroup", "group"}) :
           r = [p \in Requests |-> IF p = 1 THEN q ELSE Idle]

\* concurrent requests on the mutating routes of the group API
InitConcurrent ==
    /\ dbUsers = OneUserTable("e1")
    /\ r \in [Requests -> PostGroupRequests({"", "platform"})
                          \cup PatchRequests({GroupInfra, GroupDevs}, ValidPatchGroupRequests)
                          \cup GroupRequests({GroupInfra, GroupDevs}, {"deleteGroup"})]

Init ==
    /\ dbGroups = InitialGroups
    /\ dbGroupMembers = InitialGroupMembers
    /\ (InitChain \/ InitSingle \/ InitConcurrent)

Next ==
    \E p \in Requests :
        \/ ExtractGroupParam(p)
        \/ ExtractOrganizationParam(p)
        \/ ExtractOrganizationMemberParam(p)
        \/ postGroupByOrganization(p)
        \/ patchGroup(p)
        \/ patchGroupPrecheck(p)
        \/ patchGroupInTx(p)
        \/ patchGroupPostRead(p)
        \/ deleteGroup(p)
        \/ group(p)
        \/ groups(p)
        \/ groupsMembers(p)

Spec == Init /\ [][Next]_vars

----------------------------------------------------------------------------
(* Properties of the resolver stages *)

\* the stages of q's chain that ran and called the next one
Passed(q, name) == {i \in 1..Len(q.chain) : i < q.stage /\ q.chain[i] = name}

Last(S) == CHOOSE i \in S : \A j \in S : j <= i

\* the organization stage that wrote q's context ran after a group stage
OrganizationAfterGroup(q) ==
    /\ Passed(q, "ExtractOrganizationParam") # {}
    /\ \E i \in Passed(q, "ExtractGroupParam") :
           i < Last(Passed(q, "ExtractOrganizationParam"))

\* C1: once ExtractGroupParam succeeded for a group, the organization a later
\* ExtractOrganizationParam stores is the one whose id is the group's
\* OrganizationID, whatever URL parameters the caller supplied
C1_OrganizationIsGroupOwner ==
    \A p \in Requests :
        OrganizationAfterGroup(r[p]) =>
            /\ r[p].ctx.group # {}
            /\ r[p].ctx.organization # {}
            /\ \A g \in r[p].ctx.group, o \in r[p].ctx.organization :
                   /\ o.ID = g.OrganizationID
                   /\ o \in Organizations

\* C1 witness: the caller named another organization in the path, both stages
\* ran, and the handler is reached with the group's owner
C1_Witness ==
    \E p \in Requests :
        /\ r[p].chain = <<"ExtractGroupParam", "ExtractOrganizationParam">>
        /\ r[p].pc = "handler"
        /\ r[p].urlParams[1] = [key |-> "organization", value |-> UUIDUrn(OrgOther)]
        /\ \E o \in r[p].ctx.organization : o.ID = OrgAcme

\* the user the "user" parameter of q names
NamedUser(q) == {u \in dbUsers : u.ID \in parseUUID(q, "user")}

\* C5: the value under the member key is the membership row plus username and
\* avatar URL and nothing else, so it is the same for user records that differ
\* in any other field; no other key of the context holds the user
C5_MemberIsRestrictedView ==
    \A p \in Requests :
        /\ DOMAIN r[p].ctx = {"group", "organization", "member"}
        /\ \A m \in r[p].ctx.member :
               /\ DOMAIN m = {"OrganizationMember", "Username", "AvatarURL"}
               /\ m.OrganizationMember \in OrganizationMembers
               /\ \A u \in NamedUser(r[p]) :
                      /\ m.OrganizationMember.UserID = u.ID
                      /\ m.Username = u.Username
                      /\ m.AvatarURL = u.AvatarURL
                      /\ \A e \in Emails :
                             OrganizationMember(m.OrganizationMember, [u EXCEPT !.Email = e]) = m

\* C5 witness: a member was stored for a user whose record has the other e-mail
C5_Witness ==
    \E p \in Requests :
        /\ r[p].ctx.member # {}
        /\ r[p].pc = "handler"
        /\ \E u \in NamedUser(r[p]) : u.Email = "e2"

\* the value of the "organization" parameter the stage at hand reads
OrganizationArg(q) == URLParam(q.urlParams, "organization")

\* C6: for the alias "default" and for the all-zero UUID string the stage
\* issues the get-default-organization lookup and no other, and what it stores
\* is the default organization
C6_DefaultAliasResolvesDefault ==
    [][ \A p \in Requests :
          ( /\ AtStage(r[p], "ExtractOrganizationParam")
            /\ OrganizationArg(r[p]) \in {DefaultOrganization, UUIDString(NilUUID)}
            /\ r'[p] # r[p] )
          => /\ r'[p].ops = Append(r[p].ops, "GetDefaultOrganization")
             /\ LastErr(r'[p]) = "nil" <=> r'[p].pc # "done"
             /\ r'[p].pc # "done" =>
                    /\ r'[p].ctx.organization = {o \in Organizations : o.IsDefault}
                    /\ Cardinality(r'[p].ctx.organization) = 1
             /\ r'[p].pc = "done" =>
                    /\ r'[p].ctx = r[p].ctx
                    /\ r'[p].status = IF LastErr(r'[p]) = "internal" THEN 500 ELSE 404
      ]_vars

\* C6 witness: the all-zero UUID resolved to the default organization while
\* another organization is named "default"
C6_Witness ==
    \E p \in Requests :
        /\ r[p].chain = <<"ExtractOrganizationParam">>
        /\ r[p].urlParams = <<[key |-> "organization", value |-> UUIDString(NilUUID)]>>
        /\ r[p].pc = "handler"
        /\ r[p].ops = <<"GetDefaultOrganization">>
        /\ \E o \in r[p].ctx.organization : o.IsDefault /\ o.Name # DefaultOrganization
        /\ \E o \in Organizations : o.Name = DefaultOrganization /\ ~o.IsDefault

\* C10: when the group stage finds no row for the id (or the lookup fails) it
\* answers 404 (or 500), does not call the next stage, registers no group and
\* no organization and injects no "organization" parameter
C10_AbsentGroupRegistersNothing ==
    [][ \A p \in Requests :
          ( /\ AtStage(r[p], "ExtractGroupParam")
            /\ r'[p] # r[p]
            /\ \/ \E id \in parseUUID(r[p], "group") : GetGroupByID(id) = {}
               \/ LastErr(r'[p]) # "nil" )
          => /\ r'[p].pc = "done"
             /\ r'[p].stage = r[p].stage
             /\ LastErr(r'[p]) \in {"norows", "internal"}
             /\ r'[p].status = IF LastErr(r'[p]) = "norows" THEN 404 ELSE 500
             /\ r'[p].ctx = r[p].ctx
             /\ r'[p].urlParams = r[p].urlParams
      ]_vars

\* C10 witness: a request for an absent group ended with 404 and an empty
\* context, the caller having supplied no organization
C10_Witness ==
    \E p \in Requests :
        /\ r[p].chain = <<"ExtractGroupParam", "ExtractOrganizationParam">>
        /\ r[p].stage = 1
        /\ r[p].urlParams = <<[key |-> "group", value |-> UUIDString(GroupAbsent)]>>
        /\ r[p].pc = "done"
        /\ r[p].status = 404
        /\ r[p].ctx = EmptyContext

----------------------------------------------------------------------------
(* Properties of the group handlers *)

MiddlewareOps ==
    { "GetGroupByID", "GetDefaultOrganization", "GetOrganizationByID",
      "GetOrganizationByName", "GetUserByID", "OrganizationMembers" }

MutationOps ==
    { "InsertGroup", "UpdateGroupByID", "InsertGroupMember", "DeleteGroupMember",
      "DeleteGroupByID" }

\* the store calls q's handler issued
HandlerCalls(q) == SelectSeq(q.ops, LAMBDA op : op \notin MiddlewareOps)

IssuedMutation(q) == \E i \in 1..Len(q.ops) : q.ops[i] \in MutationOps

GateAllowed(q) == q.gate # <<>> /\ q.gate[1].allowed

GateDenied(q) == q.gate # <<>> /\ ~q.gate[1].allowed

OthersIdle(p) == \A o \in Requests \ {p} : r[o].pc = "idle"

StoreUntouched == dbGroups = InitialGroups /\ dbGroupMembers = InitialGroupMembers

\* C2: a patchGroup whose atomic section fails leaves every group's name and
\* the member rows as they were when the section began, whatever the section
\* had applied before the failure
C2_FailedSectionLeavesNoTrace ==
    [][ \A p \in Requests :
          (r[p].pc = "tx" /\ r'[p].pc = "done")
          => /\ dbGroups' = dbGroups
             /\ dbGroupMembers' = dbGroupMembers
             /\ r'[p].status \in {412, 500}
      ]_vars

\* C2 witness: the section applied the rename and the first of two inserts,
\* the second insert hit the uniqueness of (group, user), the answer was 412
C2_Witness ==
    \E p \in Requests :
        /\ r[p].pc = "done"
        /\ r[p].status = 412
        /\ r[p].body.Name # ""
        /\ Len(r[p].body.AddUsers) = 2
        /\ r[p].txApplied = 2
        /\ LastErr(r[p]) = "unique"
        /\ \A g \in r[p].ctx.group : g \in dbGroups

\* q's atomic section committed
Committed(q) ==
    /\ q.handler = "patchGroup"
    /\ \/ q.pc = "postread"
       \/ q.pc = "done" /\ Len(q.ops) > 0 /\ q.ops[Len(q.ops)] = "GetGroupMembers"

\* C3: once a patchGroup committed a rename to N, a concurrent patchGroup
\* renaming another group of the organization to N ends with 409, also when
\* its name pre-check ran before that commit, and the committed name stays
C3_ConcurrentRenameConflicts ==
    \A p, q \in Requests :
        ( /\ p # q
          /\ Committed(r[p])
          /\ r[p].body.Name # ""
          /\ r[q].handler = "patchGroup"
          /\ r[q].body.Name = r[p].body.Name
          /\ r[q].ctx.group # {}
          /\ \A g \in r[p].ctx.group, h \in r[q].ctx.group :
                 g.ID # h.ID /\ g.OrganizationID = h.OrganizationID
          /\ r[q].pc = "done"
          /\ \E i \in 1..Len(r[q].ops) : r[q].ops[i] = "GetGroupByOrgAndName"
          /\ \A i \in 1..Len(r[p].errs) : r[p].errs[i] # "internal"
          /\ \A i \in 1..Len(r[q].errs) : r[q].errs[i] # "internal" )
        => /\ r[q].status = 409
           /\ \A g \in r[p].ctx.group :
                  [g EXCEPT !.Name = r[p].body.Name] \in dbGroups

\* C4: the group that held the reserved name at the start still exists and
\* still holds it, and no other group holds it
C4_ReservedGroupIsSystemManaged ==
    /\ \E g \in dbGroups : g.ID = GroupEveryone /\ g.Name = AllUsersGroup
    /\ \A g \in dbGroups : g.Name = AllUsersGroup => g.ID = GroupEveryone

\* the ids of q's request, AddUsers first
RequestUsers(q) == q.body.AddUsers \o q.body.RemoveUsers

Malformed(id) == UUIDParse(id) = {}

\* a well-formed id of a user who is no member of the organization of q's group
NonMember(q, id) ==
    /\ ~Malformed(id)
    /\ \A g \in q.group, u \in UUIDParse(id) :
           [OrganizationID |-> g.OrganizationID, UserID |-> u] \notin OrganizationMembers

\* an authorized patchGroup whose decoded body names a non-member
NamesNonMember(q) ==
    /\ q.handler = "patchGroup"
    /\ GateAllowed(q)
    /\ q.req # {}
    /\ \E i \in 1..Len(RequestUsers(q)) : NonMember(q, RequestUsers(q)[i])

\* C7 as stated: such a request is answered 412 and issues no mutation
C7_NonMemberIs412 ==
    \A p \in Requests :
        (NamesNonMember(r[p]) /\ r[p].pc = "done")
        => r[p].status = 412 /\ ~IssuedMutation(r[p])

\* the first position of q's ids that is malformed or names a non-member
FirstRejected(q) ==
    LET bad == {i \in 1..Len(RequestUsers(q)) :
                   Malformed(RequestUsers(q)[i]) \/ NonMember(q, RequestUsers(q)[i])}
    IN  CHOOSE i \in bad : \A j \in bad : i <= j

\* C7 amended: such a request is rejected before the name pre-check and the
\* atomic section and issues no mutation; the status is 400 when the name is
\* the reserved one, else 500 when a membership lookup failed, else 400 when
\* the first id the loop rejects is malformed, and 412 otherwise
C7_NonMemberRejectedBeforeSection ==
    \A p \in Requests :
        NamesNonMember(r[p]) =>
            /\ r[p].pc = "done"
            /\ ~IssuedMutation(r[p])
            /\ r[p].txApplied = 0
            /\ \A i \in 1..Len(r[p].ops) :
                   r[p].ops[i] \in MiddlewareOps \cup {"GetOrganizationMemberByUserID"}
            /\ r[p].status =
                  IF r[p].body.Name = AllUsersGroup THEN 400
                  ELSE IF LastErr(r[p]) = "internal" THEN 500
                  ELSE IF Malformed(RequestUsers(r[p])[FirstRejected(r[p])]) THEN 400
                  ELSE 412
            /\ OthersIdle(p) => StoreUntouched

\* C7 witness: AddUsers names a non-member first and the answer is 412
C7_Witness ==
    \E p \in Requests :
        /\ NamesNonMember(r[p])
        /\ r[p].body.AddUsers = <<UUIDString(UserCarol), UUIDString(UserAlice)>>
        /\ r[p].body.Name = "platform"
        /\ r[p].status = 412

\* C8: a patchGroup asking for the reserved name ends in the step that reads
\* the body: 400 when the gate allowed the update, 404 when it denied it; no
\* store call of the handler is issued and the tables stay as they were
C8_ReservedRenameRejected ==
    \A p \in Requests :
        ( /\ r[p].handler = "patchGroup"
          /\ r[p].body.Name = AllUsersGroup
          /\ r[p].gate # <<>> )
        => /\ r[p].pc = "done"
           /\ r[p].status = IF r[p].gate[1].allowed THEN 400 ELSE 404
           /\ HandlerCalls(r[p]) = <<>>
           /\ r[p].txApplied = 0
           /\ OthersIdle(p) => StoreUntouched

\* C8 witness: the gate allowed the update, the body was decoded and named
\* the reserved name together with an id of a member; the answer was 400
C8_Witness ==
    \E p \in Requests :
        /\ r[p].handler = "patchGroup"
        /\ r[p].body.Name = AllUsersGroup
        /\ r[p].body.AddUsers = <<UUIDString(UserAlice)>>
        /\ GateAllowed(r[p])
        /\ r[p].req # {}
        /\ r[p].status = 400

GatedHandlers == {"postGroupByOrganization", "patchGroup", "deleteGroup", "group"}

\* the gate comes after the resolver stages and before every store call of
\* the handler, and a denial ends the request with 404 and no such call
GateOrderAndDenial ==
    \A p \in Requests :
        r[p].handler \in GatedHandlers =>
            /\ HandlerCalls(r[p]) # <<>> => GateAllowed(r[p])
            /\ r[p].gate # <<>> =>
                   /\ r[p].pc # "mw"
                   /\ \A i \in 1..Len(r[p].ops) :
                          i <= r[p].gate[1].after <=> r[p].ops[i] \in MiddlewareOps
            /\ GateDenied(r[p]) =>
                   /\ r[p].pc = "done"
                   /\ r[p].status = 404
                   /\ HandlerCalls(r[p]) = <<>>

\* the object handed to the gate is the resource the middleware of this
\* request resolved: the group, or for a create the organization it is in
GateOnResolvedResource ==
    \A p \in Requests :
        (r[p].handler \in GatedHandlers /\ r[p].gate # <<>>) =>
            IF r[p].handler = "postGroupByOrganization"
            THEN \E o \in r[p].ctx.organization : r[p].gate[1].object.OrgID = o.ID
            ELSE \E g \in r[p].ctx.group :
                     r[p].gate[1].object =
                         [Type |-> "group", ID |-> g.ID, OrgID |-> g.OrganizationID]

\* C9: in postGroupByOrganization, patchGroup, deleteGroup and group the gate
\* is evaluated on the resource resolved by the middleware of the request,
\* after resolution and before any store call of the handler, and a denial
\* gives 404 and no store mutation
C9_GateOnResolvedBeforeStore == GateOrderAndDenial /\ GateOnResolvedResource

----------------------------------------------------------------------------
(* Properties of concurrent and successful patchGroup requests *)

\* q is a patchGroup on group g that adds user u and does not remove it
AddsUser(q, g, u) ==
    /\ q.handler = "patchGroup"
    /\ q.ctx.group # {}
    /\ \A x \in q.ctx.group : x.ID = g
    /\ \E i \in 1..Len(q.body.AddUsers) : u \in UUIDParse(q.body.AddUsers[i])
    /\ \A i \in 1..Len(q.body.RemoveUsers) : u \notin UUIDParse(q.body.RemoveUsers[i])

\* q issued a call of its atomic section
EnteredSection(q) ==
    \E i \in 1..Len(q.ops) :
        q.ops[i] \in {"UpdateGroupByID", "InsertGroupMember", "DeleteGroupMember"}

NoStoreFault(q) == \A i \in 1..Len(q.errs) : q.errs[i] # "internal"

\* the rows of (g, u) in group_members
MemberRows(g, u) == {m \in dbGroupMembers : m.GroupID = g /\ m.UserID = u}

\* C11: of two patchGroup requests adding the same user to the same group at
\* most one commits; the other, once its atomic section ran without a store
\* fault, is answered 412 and leaves nothing behind (the name of the group is
\* the one the committed request left), and the user is in the roster once
C11_ConcurrentAddCommitsOnce ==
    \A p, q \in Requests, g \in {GroupInfra, GroupDevs}, u \in {UserAlice, UserBob} :
        (p # q /\ AddsUser(r[p], g, u) /\ AddsUser(r[q], g, u)) =>
            /\ ~(Committed(r[p]) /\ Committed(r[q]))
            /\ ( /\ Committed(r[p])
                 /\ r[q].pc = "done"
                 /\ EnteredSection(r[q])
                 /\ NoStoreFault(r[q]) )
               => /\ r[q].status = 412
                  /\ \E row \in dbGroups :
                        /\ row.ID = g
                        /\ row.Name = IF r[p].body.Name # "" THEN r[p].body.Name
                                      ELSE (CHOOSE x \in InitialGroups : x.ID = g).Name
                  /\ Cardinality(MemberRows(g, u)) = 1

\* C11 witness: both requests add the same user to infra; one committed and
\* was answered 200, the other had applied its rename when its insert hit the
\* uniqueness of (group, user), was answered 412 and its rename is gone
C11_Witness ==
    \E p, q \in Requests :
        /\ p # q
        /\ AddsUser(r[p], GroupInfra, UserAlice)
        /\ AddsUser(r[q], GroupInfra, UserAlice)
        /\ r[p].pc = "done" /\ r[p].status = 200 /\ r[p].body.Name = ""
        /\ r[q].pc = "done" /\ r[q].status = 412 /\ r[q].body.Name = "platform"
        /\ r[q].txApplied = 1
        /\ LastErr(r[q]) = "unique"
        /\ [ID |-> GroupInfra, Name |-> "infra", OrganizationID |-> OrgAcme] \in dbGroups
        /\ Cardinality(MemberRows(GroupInfra, UserAlice)) = 1

----------------------------------------------------------------------------
(* Properties of the list handler *)

\* the identifiers the engine allowed q to read
ReadAllowed(q) == {q.gate[i].object.ID : i \in {j \in 1..Len(q.gate) : q.gate[j].allowed}}

\* the groups of organization orgID the caller of q may read, in the order
\* of the store
ReadableGroups(q, orgID) ==
    SelectSeq(InOrder({g \in dbGroups : g.OrganizationID = orgID}),
              LAMBDA g : g.ID \in ReadAllowed(q))

\* C12: a groups request answered 200 returns the groups of the resolved
\* organization the caller may read, those and no others, in the relative
\* order of the store
C12_ListIsReadableGroupsInOrder ==
    \A p \in Requests :
        (r[p].handler = "groups" /\ r[p].pc = "done" /\ r[p].status = 200) =>
            \E o \in r[p].ctx.organization :
                LET expected == ReadableGroups(r[p], o.ID)
                IN  /\ Len(r[p].respList) = Len(expected)
                    /\ \A i \in 1..Len(expected) :
                           /\ r[p].respList[i].ID = expected[i].ID
                           /\ r[p].respList[i].Name = expected[i].Name
                           /\ r[p].respList[i].OrganizationID = o.ID

\* C12 witness: of the three groups the store listed the caller may read the
\* first and the last; the response holds these two in that order
C12_Witness ==
    \E p \in Requests :
        /\ r[p].handler = "groups"
        /\ r[p].pc = "done"
        /\ r[p].status = 200
        /\ Len(r[p].gate) = 3
        /\ ReadAllowed(r[p]) = {GroupEveryone, GroupDevs}
        /\ Len(r[p].respList) = 2
        /\ r[p].respList[1].ID = GroupEveryone
        /\ r[p].respList[2].ID = GroupDevs

----------------------------------------------------------------------------
(* Properties of a successful patchGroup *)

\* the users a list of ids names
UsersOf(ids) == UNION {UUIDParse(ids[i]) : i \in 1..Len(ids)}

\* the users of group g in a set of membership rows
Roster(members, g) == {m.UserID : m \in {x \in members : x.GroupID = g}}

\* the calls q issued in its atomic section
SectionCalls(q) ==
    SelectSeq(q.ops, LAMBDA op : op \in {"UpdateGroupByID", "InsertGroupMember",
                                        "DeleteGroupMember"})

\* the section of a request: the rename if asked for, one insert per AddUsers,
\* one delete per RemoveUsers
SectionOrder(req) ==
    (IF req.Name # "" THEN <<"UpdateGroupByID">> ELSE <<>>)
    \o [i \in 1..Len(req.AddUsers) |-> "InsertGroupMember"]
    \o [i \in 1..Len(req.RemoveUsers) |-> "DeleteGroupMember"]

\* C13: a patchGroup answered 200 with no other request around issued the
\* rename, the inserts and the deletes in that order, all of them applied in
\* its one section; the group then holds the requested name and the roster
\* (previous roster plus AddUsers) minus RemoveUsers; the response, read
\* after the commit, reports that name and that roster
C13_SuccessfulPatchResult ==
    \A p \in Requests :
        ( /\ r[p].handler = "patchGroup"
          /\ r[p].pc = "done"
          /\ r[p].status = 200
          /\ OthersIdle(p) )
        => \E g \in r[p].ctx.group :
               LET req == r[p].body
                   name == IF req.Name # "" THEN req.Name ELSE g.Name
                   roster == (Roster(InitialGroupMembers, g.ID) \cup UsersOf(req.AddUsers))
                                 \ UsersOf(req.RemoveUsers)
               IN  /\ SectionCalls(r[p]) = SectionOrder(req)
                   /\ r[p].txApplied = Len(SectionOrder(req))
                   /\ r[p].ops[Len(r[p].ops)] = "GetGroupMembers"
                   /\ [g EXCEPT !.Name = name] \in dbGroups
                   /\ \A h \in dbGroups : h.ID = g.ID => h.Name = name
                   /\ Roster(dbGroupMembers, g.ID) = roster
                   /\ \E out \in r[p].resp :
                          /\ out.ID = g.ID
                          /\ out.Name = name
                          /\ {u.ID : u \in out.Members} = roster

\* C13 witness: the empty group infra is renamed to platform and a member of
\* its organization is added; the answer is 200 with name platform and that
\* one member
C13_Witness ==
    \E p \in Requests :
        /\ r[p].handler = "patchGroup"
        /\ r[p].pc = "done"
        /\ r[p].status = 200
        /\ OthersIdle(p)
        /\ r[p].body = [Name |-> "platform", AddUsers |-> <<UUIDString(UserAlice)>>,
                        RemoveUsers |-> <<>>]
        /\ [ID |-> GroupInfra, Name |-> "platform", OrganizationID |-> OrgAcme] \in dbGroups
        /\ Roster(dbGroupMembers, GroupInfra) = {UserAlice}
        /\ \E out \in r[p].resp :
               out.Name = "platform" /\ {u.ID : u \in out.Members} = {UserAlice}

----------------------------------------------------------------------------
(* Properties of deleteGroup *)

\* q is a deleteGroup on the group holding the reserved name, past the gate
DeletesReserved(q) ==
    /\ q.handler = "deleteGroup"
    /\ q.gate # <<>>
    /\ \E g \in q.ctx.group : g.Name = AllUsersGroup

\* C14 as stated: deleteGroup on the reserved group is answered 400 whether
\* the gate allowed or denied the delete, and the group is not deleted
C14_ReservedDeleteIs400 ==
    \A p \in Requests :
        DeletesReserved(r[p]) =>
            /\ r[p].pc = "done"
            /\ r[p].status = 400
            /\ \A g \in r[p].ctx.group : g \in dbGroups

\* C14 amended: deleteGroup on the reserved group is answered 400 when the
\* gate allowed the delete and 404 when it denied it; in both cases no store
\* call of the handler is issued and the group and its roster stay
C14_ReservedDeleteRejected ==
    \A p \in Requests :
        DeletesReserved(r[p]) =>
            /\ r[p].pc = "done"
            /\ r[p].status = IF r[p].gate[1].allowed THEN 400 ELSE 404
            /\ HandlerCalls(r[p]) = <<>>
            /\ \A g \in r[p].ctx.group : g \in dbGroups
            /\ OthersIdle(p) => StoreUntouched

\* C14 witness: the gate allowed the delete of the reserved group and the
\* answer was 400
C14_Witness ==
    \E p \in Requests :
        /\ DeletesReserved(r[p])
        /\ GateAllowed(r[p])
        /\ r[p].status = 400
        /\ \E g \in dbGroups : g.ID = GroupEveryone /\ g.Name = AllUsersGroup

----------------------------------------------------------------------------
(* Properties of the context accessors *)

\* the context key the accessor of handler h reads
Needs(h) ==
    IF h \in {"postGroupByOrganization", "groups"} THEN "organization" ELSE "group"

\* the stage that writes under a context key
Resolver(key) ==
    CASE key = "group" -> "ExtractGroupParam"
      [] key = "organization" -> "ExtractOrganizationParam"
      [] OTHER -> "ExtractOrganizationMemberParam"

\* the chain of q ran to its end and the handler was called
HandlerCalled(q) == q.stage > Len(q.chain)

\* the handler of q went on past its accessor
HandlerProceeded(q) ==
    /\ HandlerCalled(q)
    /\ \/ q.pc \in {"precheck", "tx", "postread", "members", "done"}
       \/ q.gate # <<>>
       \/ HandlerCalls(q) # <<>>

\* the request ended in the stage called name, which did not call the next
StoppedAt(q, name) ==
    /\ q.pc \in {"done", "panic"}
    /\ q.stage <= Len(q.chain)
    /\ q.chain[q.stage] = name

\* the latest store call of q resolved the user of the "user" parameter
UserResolved(q) ==
    /\ q.ops # <<>>
    /\ q.ops[Len(q.ops)] = "GetUserByID"
    /\ LastErr(q) = "nil"

\* a value is under a context key only if its resolver stage ran and called
\* the next one earlier in the chain; a handler goes on only with the object
\* its accessor reads, and panics when the object is missing; the member
\* stage writes a member only next to a resolved organization
AccessorsNeedResolver ==
    \A p \in Requests :
        /\ \A key \in {"group", "organization", "member"} :
               r[p].ctx[key] # {} => Passed(r[p], Resolver(key)) # {}
        /\ r[p].ctx.member # {} => r[p].ctx.organization # {}
        /\ HandlerProceeded(r[p]) => r[p].ctx[Needs(r[p].handler)] # {}
        /\ (HandlerCalled(r[p]) /\ r[p].pc = "panic")
               => r[p].ctx[Needs(r[p].handler)] = {}
        /\ (r[p].pc = "panic" /\ ~HandlerCalled(r[p]))
               => /\ StoppedAt(r[p], "ExtractOrganizationMemberParam")
                  /\ r[p].ctx.organization = {}

\* the member stage reached without a resolved organization always panics
MemberStageAlwaysPanics ==
    \A p \in Requests :
        ( /\ StoppedAt(r[p], "ExtractOrganizationMemberParam")
          /\ r[p].ctx.organization = {} )
        => r[p].pc = "panic" /\ r[p].ctx.member = {}

\* C15 as stated: the accessors need their resolver stage, and the member
\* stage without a resolved organization always ends in the developer error
C15_AccessorsPanicWithoutResolver == AccessorsNeedResolver /\ MemberStageAlwaysPanics

\* the member stage reached without a resolved organization writes no member
\* and does not call the next stage: it panics once the user is resolved and
\* answers 400, 404 or 500 when the user is not
MemberStageNeverProceeds ==
    \A p \in Requests :
        /\ ( /\ StoppedAt(r[p], "ExtractOrganizationMemberParam")
             /\ r[p].ctx.organization = {} )
           => /\ r[p].ctx.member = {}
              /\ IF UserResolved(r[p]) THEN r[p].pc = "panic"
                 ELSE r[p].pc = "done" /\ r[p].status \in {400, 404, 500}
        /\ \A i \in Passed(r[p], "ExtractOrganizationMemberParam") :
               \E j \in Passed(r[p], "ExtractOrganizationParam") : j < i

\* C15 amended: the accessors need their resolver stage; the member stage
\* without a resolved organization never writes a member nor calls the next
\* stage, and it panics exactly when the user of the request was resolved
C15_AccessorsNeedResolverStage == AccessorsNeedResolver /\ MemberStageNeverProceeds

\* C15 witness: a chain with the member stage first; the user was resolved,
\* the organization accessor panicked and no member was written
C15_Witness ==
    \E p \in Requests :
        /\ r[p].chain = <<"ExtractOrganizationMemberParam", "ExtractOrganizationParam">>
        /\ r[p].stage = 1
        /\ r[p].pc = "panic"
        /\ UserResolved(r[p])
        /\ URLParam(r[p].urlParams, "organization") # ""
        /\ r[p].ctx = EmptyContext

----------------------------------------------------------------------------
(* Properties of the organization lookup *)

\* C16: for a value of the "organization" parameter other than "default" and
\* the all-zero UUID string the stage issues exactly one lookup, by identifier
\* if and only if the value parses as a UUID and by name otherwise; a value
\* that parses is answered 404 when no organization has that identifier, also
\* when an organization has the value as its name; an empty value is answered
\* 400 without a lookup
C16_OneLookupByIdOrName ==
    [][ \A p \in Requests :
          ( /\ AtStage(r[p], "ExtractOrganizationParam")
            /\ OrganizationArg(r[p]) \notin {DefaultOrganization, UUIDString(NilUUID)}
            /\ r'[p] # r[p] )
          => LET arg == OrganizationArg(r[p])
                 ids == UUIDParse(arg)
             IN  IF arg = ""
                 THEN /\ r'[p].ops = r[p].ops
                      /\ r'[p].pc = "done"
                      /\ r'[p].status = 400
                      /\ r'[p].ctx = r[p].ctx
                 ELSE /\ r'[p].ops = Append(r[p].ops,
                                            IF ids # {} THEN "GetOrganizationByID"
                                            ELSE "GetOrganizationByName")
                      /\ r'[p].pc # "done" =>
                             /\ LastErr(r'[p]) = "nil"
                             /\ \E o \in Organizations :
                                    /\ r'[p].ctx.organization = {o}
                                    /\ IF ids # {} THEN o.ID \in ids ELSE o.Name = arg
                      /\ r'[p].pc = "done" =>
                             /\ r'[p].ctx = r[p].ctx
                             /\ r'[p].status = IF LastErr(r'[p]) = "internal" THEN 500 ELSE 404
                      /\ (ids # {} /\ \A o \in Organizations : o.ID \notin ids) =>
                             /\ r'[p].pc = "done"
                             /\ LastErr(r'[p]) # "internal" => r'[p].status = 404
      ]_vars

\* C16 witness: the value parses as a UUID no organization has as identifier
\* while an organization has the value as its name; the one lookup was by
\* identifier and the answer was 404
C16_Witness ==
    \E p \in Requests :
        /\ r[p].chain = <<"ExtractOrganizationParam">>
        /\ r[p].urlParams = <<[key |-> "organization", value |-> UUIDString(GroupAbsent)]>>
        /\ \E o \in Organizations : o.Name = UUIDString(GroupAbsent)
        /\ r[p].ops = <<"GetOrganizationByID">>
        /\ r[p].errs = <<"norows">>
        /\ r[p].pc = "done"
        /\ r[p].status = 404
        /\ r[p].ctx = EmptyContext

----------------------------------------------------------------------------
(* Properties of the validation of patchGroup *)

\* an authorized patchGroup whose decoded body holds an id that does not parse
NamesMalformed(q) ==
    /\ q.handler = "patchGroup"
    /\ GateAllowed(q)
    /\ q.req # {}
    /\ \E i \in 1..Len(RequestUsers(q)) : Malformed(RequestUsers(q)[i])

\* C17 as stated: such a request, when no store call fails, is answered 400
\* wherever the malformed id stands, and issues no mutation
C17_MalformedIs400 ==
    \A p \in Requests :
        (NamesMalformed(r[p]) /\ r[p].pc = "done" /\ NoStoreFault(r[p]))
        => r[p].status = 400 /\ ~IssuedMutation(r[p])

\* C17 amended: such a request ends in the validation, before the name
\* pre-check and the atomic section, and the tables stay as they were; the
\* status is 400 when the name is the reserved one or the first id the loop
\* rejects is the malformed one, 412 when an id before it names a non-member,
\* and 500 when the membership lookup of an id before it failed
C17_MalformedRejectedBeforeSection ==
    \A p \in Requests :
        NamesMalformed(r[p]) =>
            /\ r[p].pc = "done"
            /\ ~EnteredSection(r[p])
            /\ r[p].txApplied = 0
            /\ \A i \in 1..Len(r[p].ops) :
                   r[p].ops[i] \in MiddlewareOps \cup {"GetOrganizationMemberByUserID"}
            /\ Len(HandlerCalls(r[p])) <= FirstRejected(r[p])
            /\ r[p].status =
                  IF r[p].body.Name = AllUsersGroup THEN 400
                  ELSE IF LastErr(r[p]) = "internal" THEN 500
                  ELSE IF Malformed(RequestUsers(r[p])[FirstRejected(r[p])]) THEN 400
                  ELSE 412
            /\ OthersIdle(p) => StoreUntouched

\* C17 witness: the malformed id follows the id of a member; the member was
\* looked up, the malformed id was answered 400
C17_Witness ==
    \E p \in Requests :
        /\ NamesMalformed(r[p])
        /\ r[p].body.AddUsers = <<UUIDString(UserAlice), "not-a-uuid">>
        /\ r[p].body.Name = "platform"
        /\ HandlerCalls(r[p]) = <<"GetOrganizationMemberByUserID">>
        /\ r[p].status = 400
        /\ StoreUntouched

----------------------------------------------------------------------------
(* Properties of the name pre-check of patchGroup *)

\* a group of the organization of q's group holds the name q asks for
NameHeld(q) ==
    \E g \in q.group, h \in dbGroups :
        h.OrganizationID = g.OrganizationID /\ h.Name = q.body.Name

\* C18: when the pre-check of a patchGroup finds that a group of the
\* organization (the target included) holds the requested name, the request
\* is answered 409 in that step, before the atomic section; no name and no
\* roster changes, whatever AddUsers and RemoveUsers hold
C18_HeldNameIs409 ==
    [][ \A p \in Requests :
          ( /\ r[p].pc = "precheck"
            /\ r'[p] # r[p]
            /\ NameHeld(r[p])
            /\ LastErr(r'[p]) # "internal" )
          => /\ r[p].body.Name # ""
             /\ r'[p].pc = "done"
             /\ r'[p].status = 409
             /\ r'[p].ops = Append(r[p].ops, "GetGroupByOrgAndName")
             /\ ~EnteredSection(r'[p])
             /\ dbGroups' = dbGroups
             /\ dbGroupMembers' = dbGroupMembers
      ]_vars

\* C18 witness: the request renames infra to its current name and adds a
\* member of the organization; it was answered 409 and nothing changed
C18_Witness ==
    \E p \in Requests :
        /\ r[p].handler = "patchGroup"
        /\ \E g \in r[p].ctx.group : g.ID = GroupInfra /\ g.Name = r[p].body.Name
        /\ r[p].body.AddUsers = <<UUIDString(UserAlice)>>
        /\ r[p].ops[Len(r[p].ops)] = "GetGroupByOrgAndName"
        /\ r[p].pc = "done"
        /\ r[p].status = 409
        /\ StoreUntouched

----------------------------------------------------------------------------
(* Frame of patchGroup *)

\* C19: a patchGroup on group G, with no other request around, leaves the
\* name and the roster of every other group as they were, also when it
\* removes from G a user who belongs to another group
C19_PatchChangesOnlyTarget ==
    \A p \in Requests :
        (r[p].handler = "patchGroup" /\ OthersIdle(p)) =>
            \A g \in r[p].ctx.group, h \in InitialGroups :
                h.ID # g.ID =>
                    /\ h \in dbGroups
                    /\ Roster(dbGroupMembers, h.ID) = Roster(InitialGroupMembers, h.ID)

----------------------------------------------------------------------------
(* Failures of the lookups before the atomic section *)

\* the lookup op of q failed with an error other than not-found
LookupFailed(q, op) ==
    \E i \in 1..Len(q.ops) : q.ops[i] = op /\ q.errs[i] = "internal"

\* a failed membership lookup ends the request with 500 before the pre-check
\* and the atomic section
MembershipLookupFailureIs500 ==
    \A p \in Requests :
        (r[p].handler = "patchGroup" /\ LookupFailed(r[p], "GetOrganizationMemberByUserID"))
        => /\ r[p].pc = "done"
           /\ r[p].status = 500
           /\ r[p].ops[Len(r[p].ops)] = "GetOrganizationMemberByUserID"
           /\ ~EnteredSection(r[p])

\* a failed name lookup ends the request with 500 before the atomic section
NameLookupFailureIs500 ==
    \A p \in Requests :
        (r[p].handler = "patchGroup" /\ LookupFailed(r[p], "GetGroupByOrgAndName"))
        => /\ r[p].pc = "done"
           /\ r[p].status = 500
           /\ ~EnteredSection(r[p])

\* C20: a lookup of patchGroup before the atomic section that fails with an
\* error other than not-found, be it a membership lookup or the lookup of the
\* name, ends the request with 500 and the atomic section is never entered
C20_LookupFailureIs500 == MembershipLookupFailureIs500 /\ NameLookupFailureIs500

====
